---------------------------- MODULE Spec2Model ----------------------------
(***************************************************************************)
(* Model of the chat-log dataset builder (dataset/prepare_training_dataset *)
(* .py) and of the reply generator (core/generator.py).                    *)
(*                                                                         *)
(* A Python str is a sequence of one-character strings.  The               *)
(* specifications share the variables:                                     *)
(*   Spec         process_chat_file on one file, one log entry per step;   *)
(*   SpecDataset  create_training_dataset over a folder of chat files;     *)
(*   SpecGen      MessageGenerator.generate_multiple_responses;            *)
(*   SpecClean, SpecExtract, SpecFormat  the text functions, each applied  *)
(*                to inputs drawn from bounded sets.                       *)
(***************************************************************************)
EXTENDS Integers, Sequences, FiniteSets, TLC

VARIABLES
    \* ---- process_chat_file (one call) ----
    pc,               \* "start" | "loop" | "returned"
    data,             \* the parsed JSON document's header
    conversations,    \* list of emitted pairs
    current_context,  \* the context window
    msg,              \* the loop variable `msg` (last entry taken)
    nread,            \* number of entries of data['messages'] taken so far
    log,              \* history: one LogEntry per entry taken
    result,           \* the value returned by the call
    file_path,        \* the argument file_path
    \* ---- create_training_dataset ----
    dpc,              \* "idle" | "files" | "stats" | "done"
    folder,           \* the files chats_folder.glob yields, in visit order
    fidx,             \* number of files visited
    file_conversations, \* the local `conversations` of create_training_dataset
    all_conversations,
    total_files,
    processed_files,
    stats,            \* the stats dict
    sidx,             \* number of corpus records folded into stats
    written,          \* which output files were written
    \* ---- MessageGenerator ----
    gpc,              \* "idle" | "new" | "ready" | "ctor_raised" | "loop" |
                      \* "returned" | "raised"
    model,            \* self.model and self.tokenizer: "None" | "loaded"
    context_messages,
    num_responses,
    temperature,      \* in tenths
    gi,               \* loop variable i of generate_multiple_responses
    temps,            \* temperatures passed to generate_response, in tenths
    outcomes,         \* history: outcome of each inference call
    responses,
    \* ---- the text functions, each applied to an input ----
    tpc,              \* "idle" | "input" | then one position per function applied
    raw,              \* clean_text: the argument
    cleaned,          \* clean_text(raw)
    recleaned,        \* clean_text(clean_text(raw))
    x_full_response,  \* generate_response: full_response, what decode gave
    x_your_response,  \* generate_response: your_response, the extracted reply
    ex_context,       \* a training example's context
    ex_response,      \* a training example's response
    training_text,    \* format_dataset: dialog_text
    dialog_text,      \* generate_response: dialog_text
    recovered         \* the reply extracted from the training text without eos

extVars == <<pc, data, conversations, current_context, msg, nread, log, result,
             file_path>>
dsVars  == <<dpc, folder, fidx, file_conversations, all_conversations, total_files, processed_files,
             stats, sidx, written>>
genVars == <<gpc, model, context_messages, num_responses, temperature, gi, temps,
             outcomes, responses>>
txtVars == <<tpc, raw, cleaned, recleaned, x_full_response, x_your_response,
             ex_context, ex_response, training_text, dialog_text, recovered>>
vars    == <<extVars, dsVars, genVars, txtVars>>

---------------------------------------------------------------------------
(* Characters and strings *)

\* characters matched by \w in the model's alphabet
WordChars ==
    {"a", "b", "d", "e", "h", "i", "k", "n", "o", "p", "r", "s", "t", "u", "w",
     "x", "G", "H", "V", "y", "_", "7"}
\* characters matched by \s
SpaceChars == {" ", "\n", "\t"}
\* the punctuation the character class of line 13 keeps
PunctChars == {".", ",", "!", "?", "-", ":", ";", "(", ")"}

IsSpace(c) == c \in SpaceChars

\* re.sub(r'[^\w\s.,!?\-:;()]', ' ', s)
RECURSIVE SubDisallowed(_)
SubDisallowed(s) ==
    IF s = <<>> THEN <<>>
    ELSE <<IF Head(s) \in WordChars \cup SpaceChars \cup PunctChars
           THEN Head(s) ELSE " ">> \o SubDisallowed(Tail(s))

\* str.lstrip()
RECURSIVE LStrip(_)
LStrip(s) ==
    IF s # <<>> /\ IsSpace(Head(s)) THEN LStrip(Tail(s)) ELSE s

\* str.rstrip()
RECURSIVE RStrip(_)
RStrip(s) ==
    IF s # <<>> /\ IsSpace(s[Len(s)]) THEN RStrip(SubSeq(s, 1, Len(s) - 1)) ELSE s

\* str.strip()
Strip(s) == RStrip(LStrip(s))

\* re.sub(r'\s+', ' ', s): every maximal run of whitespace becomes one space
RECURSIVE CollapseSpaces(_)
CollapseSpaces(s) ==
    IF s = <<>> THEN <<>>
    ELSE IF IsSpace(Head(s)) THEN <<" ">> \o CollapseSpaces(LStrip(Tail(s)))
    ELSE <<Head(s)>> \o CollapseSpaces(Tail(s))

\* s.startswith(p)
StartsWith(s, p) == Len(s) >= Len(p) /\ SubSeq(s, 1, Len(p)) = p

HTTP == <<"h", "t", "t", "p">>

---------------------------------------------------------------------------
(* JSON values of a message's text field *)

\* a plain string
Str(chars) == [tag |-> "str", chars |-> chars, frags |-> <<>>]
\* a list of fragments
List(frags) == [tag |-> "list", chars |-> <<>>, frags |-> frags]
\* a scalar (string) fragment
FragStr(chars) == [dict |-> FALSE, has_text |-> FALSE, chars |-> chars]
\* a dict fragment {"type": ..., "text": chars}
FragDict(chars) == [dict |-> TRUE, has_text |-> TRUE, chars |-> chars]
\* a dict fragment with no 'text' key
FragNoText == [dict |-> TRUE, has_text |-> FALSE, chars |-> <<>>]

\* ''.join([str(t['text']) if isinstance(t, dict) else str(t) for t in text])
RECURSIVE JoinFragments(_)
JoinFragments(frags) ==
    IF frags = <<>> THEN <<>> ELSE Head(frags).chars \o JoinFragments(Tail(frags))

\* t['text'] raises KeyError for a dict fragment without the key
CleanRaises(text) ==
    /\ text.tag = "list"
    /\ \E k \in 1..Len(text.frags) : text.frags[k].dict /\ ~text.frags[k].has_text

\* a variant of clean_text that strips first, before the substitutions
clean_text_StripFirst(text) ==
    LET joined == IF text.tag = "list" THEN JoinFragments(text.frags) ELSE text.chars
    IN  CollapseSpaces(SubDisallowed(Strip(joined)))

clean_text(text) ==
    LET joined == IF text.tag = "list" THEN JoinFragments(text.frags) ELSE text.chars
    IN  Strip(CollapseSpaces(SubDisallowed(joined)))

---------------------------------------------------------------------------
(* Chat documents and their entries *)

\* the default of the parameter your_name
your_name == "Andrey"

\* a message entry {"type": "message", "from": from, "text": text}
Entry(from, text) ==
    [isdict |-> TRUE, type |-> "message", has_text |-> TRUE, from |-> from,
     text |-> text]
\* a message entry with no 'from' key: msg.get('from', '') gives ''
EntryNoFrom(text) == Entry("", text)
\* a service entry: its type is not 'message'
ServiceEntry ==
    [isdict |-> TRUE, type |-> "service", has_text |-> TRUE, from |-> "",
     text |-> Str(<<>>)]
\* a message entry with no 'text' key
EntryNoText ==
    [isdict |-> TRUE, type |-> "message", has_text |-> FALSE, from |-> "Masha",
     text |-> Str(<<>>)]
\* an element of data['messages'] that is not an object: msg.get raises
NonDictEntry ==
    [isdict |-> FALSE, type |-> "", has_text |-> FALSE, from |-> "",
     text |-> Str(<<>>)]
\* the value of `msg` before the loop binds it
NoMsg ==
    [isdict |-> FALSE, type |-> "unbound", has_text |-> FALSE, from |-> "",
     text |-> Str(<<>>)]

\* what open + json.load gives: kind "unreadable" (open or json.load raises),
\* "notdict" (valid JSON, not an object: data.get raises) or "dict"
Doc(kind, has_type, type, has_name, name, iterable) ==
    [kind |-> kind, has_type |-> has_type, type |-> type, has_name |-> has_name,
     name |-> name, iterable |-> iterable]

\* data.get('type')
DocType(d) == IF d.has_type THEN d.type ELSE "None"
\* data.get('name', 'Unknown')
DocName(d) == IF d.has_name THEN d.name ELSE "Unknown"

\* a path: folder and file name
Path(dir, name) == [dir |-> dir, name |-> name]
\* os.path.basename(file_path)
basename(p) == p.name

---------------------------------------------------------------------------
(* process_chat_file: the body of the loop over data['messages'] *)

\* the capacity of the context window
ContextLimit == 3

\* a variant of Ignored without the length test
Ignored_NoLengthCheck(text) == text = <<>> \/ StartsWith(text, HTTP)

\* line 39: the entry is ignored
Ignored(text) == text = <<>> \/ Len(text) < 2 \/ StartsWith(text, HTTP)

\* a variant of PushContext that drops the newest element (pop() for pop(0))
PushContext_DropNewest(ctx, text) ==
    LET a == Append(ctx, text)
    IN  IF Len(a) > ContextLimit THEN SubSeq(a, 1, ContextLimit) ELSE a

\* lines 54-57: append to the window, drop the oldest beyond the capacity
PushContext(ctx, text) ==
    LET a == Append(ctx, text)
    IN  IF Len(a) > ContextLimit THEN Tail(a) ELSE a

\* lines 45-50: the record appended to conversations
MakePair(ctx, text, path, d) ==
    [context |-> ctx, response |-> text, source_file |-> basename(path),
     chat_name |-> DocName(d)]

\* a variant of ResetContext that drops only the oldest element
ResetContext_Partial(ctx) == Tail(ctx)

\* line 51: the window after a pair was emitted
ResetContext(ctx) == <<>>

\* a variant of OwnMessage without the test of line 44
OwnMessage_NoGuard(st, text, path, d) ==
    [conversations   |-> Append(st.conversations,
                                MakePair(st.current_context, text, path, d)),
     current_context |-> ResetContext(st.current_context),
     raised          |-> FALSE]

\* lines 42-51: a surviving message of the owner
OwnMessage(st, text, path, d) ==
    IF st.current_context # <<>>
    THEN [conversations   |-> Append(st.conversations,
                                     MakePair(st.current_context, text, path, d)),
          current_context |-> ResetContext(st.current_context),
          raised          |-> FALSE]
    ELSE st

\* a variant of OtherMessage that never drops the oldest element
OtherMessage_NoEviction(st, text) ==
    [st EXCEPT !.current_context = Append(st.current_context, text)]

\* lines 52-57: a surviving message of anybody else
OtherMessage(st, text) ==
    [st EXCEPT !.current_context = PushContext(st.current_context, text)]

\* lines 32-33: the entry is not a message with a text
NotAMessage(m) == m.type # "message" \/ ~m.has_text

\* a variant of LoopBody that tests `sender == your_name and current_context`
\* in one condition, so that an owner message met with an empty window falls
\* into the else branch
LoopBody_MergedCondition(st, m, path, d) ==
    IF ~m.isdict THEN [st EXCEPT !.raised = TRUE]
    ELSE IF NotAMessage(m) THEN st
    ELSE IF CleanRaises(m.text) THEN [st EXCEPT !.raised = TRUE]
    ELSE LET sender == m.from
             text   == clean_text(m.text)
         IN  IF Ignored(text) THEN st
             ELSE IF sender = your_name /\ st.current_context # <<>>
             THEN OwnMessage(st, text, path, d)
             ELSE OtherMessage(st, text)

\* a variant of LoopBody where a message discarded by the filter of line 39
\* also empties the window
LoopBody_SkipResets(st, m, path, d) ==
    IF ~m.isdict THEN [st EXCEPT !.raised = TRUE]
    ELSE IF NotAMessage(m) THEN st
    ELSE IF CleanRaises(m.text) THEN [st EXCEPT !.raised = TRUE]
    ELSE LET sender == m.from
             text   == clean_text(m.text)
         IN  IF Ignored(text) THEN [st EXCEPT !.current_context = <<>>]
             ELSE IF sender = your_name THEN OwnMessage(st, text, path, d)
             ELSE OtherMessage(st, text)

\* lines 31-57, one iteration.  st = [conversations, current_context, raised];
\* raised: the iteration raised an exception
LoopBody(st, m, path, d) ==
    IF ~m.isdict THEN [st EXCEPT !.raised = TRUE]
    ELSE IF NotAMessage(m) THEN st
    ELSE IF CleanRaises(m.text) THEN [st EXCEPT !.raised = TRUE]
    ELSE LET sender == m.from
             text   == clean_text(m.text)
         IN  IF Ignored(text) THEN st
             ELSE IF sender = your_name THEN OwnMessage(st, text, path, d)
             ELSE OtherMessage(st, text)

\* a variant of ExceptReturn that returns the pairs collected so far
ExceptReturn_Partial(convs) == convs

\* lines 61-63: the except branch's return value
ExceptReturn(convs) == <<>>

\* a variant of AfterLoad without the type check of lines 28-29
AfterLoad_NoTypeCheck(d) ==
    IF d.kind # "dict" THEN "except"
    ELSE IF ~d.iterable THEN "except"
    ELSE "loop"

\* lines 20-31: where the call goes once the file is opened and parsed:
\* "except" (an exception was raised), "return" (line 29) or "loop"
AfterLoad(d) ==
    IF d.kind # "dict" THEN "except"
    ELSE IF DocType(d) # "personal_chat" THEN "return"
    ELSE IF ~d.iterable THEN "except"
    ELSE "loop"

\* lines 31-57, the whole loop: stops at the first iteration that raises
RECURSIVE RunLoop(_, _, _, _)
RunLoop(st, msgs, path, d) ==
    IF msgs = <<>> \/ st.raised THEN st
    ELSE RunLoop(LoopBody(st, Head(msgs), path, d), Tail(msgs), path, d)

\* lines 18-63.  f = [path, doc, messages]
process_chat_file(f) ==
    LET st == RunLoop([conversations |-> <<>>, current_context |-> <<>>,
                       raised |-> FALSE], f.messages, f.path, f.doc)
    IN  CASE AfterLoad(f.doc) = "except" -> ExceptReturn(<<>>)
          [] AfterLoad(f.doc) = "return" -> <<>>
          [] OTHER -> IF st.raised THEN ExceptReturn(st.conversations)
                      ELSE st.conversations

---------------------------------------------------------------------------
(* Inputs *)

MaxMsgs == 5

Hi       == Str(<<"h", "i">>)
Ok       == Str(<<"o", "k">>)
OkList   == List(<<FragDict(<<"o">>), FragStr(<<"k">>)>>)
MessyHi  == Str(<<"#", "h", "i", "\n">>)
Empty    == Str(<<>>)
OneChar  == Str(<<"a">>)
MessyOne == Str(<<"#", "a", " ">>)
OnlyJunk == Str(<<"#", " ", "#">>)
Link     == Str(<<"h", "t", "t", "p", ":", "/", "x">>)
MessyLink == List(<<FragStr(<<"#">>), FragDict(<<"h", "t", "t", "p", "x">>)>>)
BadList  == List(<<FragStr(<<"h", "i">>), FragNoText>>)

Texts == {Hi, Ok, OkList, MessyHi, Empty, OneChar, MessyOne, OnlyJunk, Link,
          MessyLink}

Msgs ==
    {Entry(f, t) : f \in {your_name, "Masha"}, t \in Texts}
    \cup {EntryNoFrom(Hi), ServiceEntry, EntryNoText, NonDictEntry,
          Entry("Masha", BadList)}

Docs ==
    {Doc("unreadable", FALSE, "", FALSE, "", FALSE),
     Doc("notdict", FALSE, "", FALSE, "", FALSE),
     Doc("dict", TRUE, "personal_chat", TRUE, "Masha", TRUE),
     Doc("dict", TRUE, "personal_chat", FALSE, "", TRUE),
     Doc("dict", TRUE, "personal_chat", TRUE, "Masha", FALSE),
     Doc("dict", TRUE, "private_group", TRUE, "Team", TRUE),
     Doc("dict", FALSE, "", TRUE, "Masha", TRUE)}

NoDoc == Doc("unbound", FALSE, "", FALSE, "", FALSE)

---------------------------------------------------------------------------
(* Spec: one call of process_chat_file *)

\* what a taken entry was, for the history
Role(m) ==
    IF ~m.isdict \/ (m.type = "message" /\ m.has_text /\ CleanRaises(m.text))
    THEN "bad"
    ELSE IF m.type # "message" \/ ~m.has_text THEN "skip"
    ELSE LET t == clean_text(m.text)
         IN  IF Len(t) < 2 \/ StartsWith(t, HTTP) THEN "skip"
             ELSE IF m.from = "Andrey" THEN "S" ELSE "I"

\* a history entry: what the entry was, its cleaned text, and whether taking
\* it made the list of pairs grow
LogEntry(m, emitted) ==
    [role |-> Role(m),
     text |-> IF Role(m) \in {"I", "S"} THEN clean_text(m.text) ELSE <<>>,
     emitted |-> emitted]

ExtIdle ==
    /\ pc = "idle" /\ data = NoDoc /\ conversations = <<>>
    /\ current_context = <<>> /\ msg = NoMsg /\ nread = 0 /\ log = <<>>
    /\ result = <<>> /\ file_path = Path("", "")

ExtInit ==
    /\ pc = "start" /\ data = NoDoc /\ conversations = <<>>
    /\ current_context = <<>> /\ msg = NoMsg /\ nread = 0 /\ log = <<>>
    /\ result = <<>> /\ file_path = Path("2025_08_12", "chat.json")

\* lines 20-31: open, json.load, the type check, up to the loop's start
Load ==
    /\ pc = "start"
    /\ \E d \in Docs :
        /\ data' = d
        /\ conversations' = <<>>
        /\ current_context' = <<>>
        /\ CASE AfterLoad(d) = "except" ->
                    pc' = "returned" /\ result' = ExceptReturn(<<>>)
             [] AfterLoad(d) = "return" ->
                    pc' = "returned" /\ result' = <<>>
             [] OTHER -> pc' = "loop" /\ result' = result
    /\ UNCHANGED <<msg, nread, log, file_path, dsVars, genVars, txtVars>>

\* lines 31-57: the loop takes the next entry
Iterate ==
    /\ pc = "loop"
    /\ nread < MaxMsgs
    /\ \E m \in Msgs :
        LET st == LoopBody([conversations |-> conversations,
                            current_context |-> current_context,
                            raised |-> FALSE], m, file_path, data)
        IN  /\ msg' = m
            /\ nread' = nread + 1
            /\ log' = Append(log, LogEntry(m, Len(st.conversations) > Len(conversations)))
            /\ conversations' = st.conversations
            /\ current_context' = st.current_context
            /\ IF st.raised
               THEN pc' = "returned" /\ result' = ExceptReturn(conversations)
               ELSE pc' = pc /\ result' = result
    /\ UNCHANGED <<data, file_path, dsVars, genVars, txtVars>>

\* line 59: the loop is over
Return ==
    /\ pc = "loop"
    /\ pc' = "returned"
    /\ result' = conversations
    /\ UNCHANGED <<data, conversations, current_context, msg, nread, log, file_path,
                   dsVars, genVars, txtVars>>

\* the stats dict before line 104 creates it
NoStats ==
    [total_conversations |-> 0, processed_files |-> 0, total_files |-> 0,
     chat_sources |-> [n \in {} |-> 0], context_lengths |-> <<>>,
     response_lengths |-> <<>>]

\* chats_folder before the call
NoFolder == [exists |-> FALSE, files |-> <<>>]

DsIdle ==
    /\ dpc = "idle" /\ folder = NoFolder /\ fidx = 0 /\ file_conversations = <<>>
    /\ all_conversations = <<>>
    /\ total_files = 0 /\ processed_files = 0 /\ stats = NoStats /\ sidx = 0
    /\ written = {}

GenIdle ==
    /\ gpc = "idle" /\ model = "None" /\ context_messages = <<>> /\ num_responses = 0
    /\ temperature = 0 /\ gi = 0 /\ temps = <<>> /\ outcomes = <<>>
    /\ responses = <<>>

\* no text function is being applied
TxtIdle ==
    /\ tpc = "idle" /\ raw = Str(<<>>) /\ cleaned = <<>> /\ recleaned = <<>>
    /\ x_full_response = <<>> /\ x_your_response = <<>> /\ ex_context = <<>>
    /\ ex_response = <<>> /\ training_text = <<>> /\ dialog_text = <<>>
    /\ recovered = <<>>

Init == ExtInit /\ DsIdle /\ GenIdle /\ TxtIdle

Next == Load \/ Iterate \/ Return

Spec == Init /\ [][Next]_vars

---------------------------------------------------------------------------
(* Properties of process_chat_file (Spec) *)

\* the last n elements of s
LastN(s, n) == IF Len(s) > n THEN SubSeq(s, Len(s) - n + 1, Len(s)) ELSE s

\* the cleaned texts of the interlocutor entries among log[lo+1 .. hi-1]
ITexts(lo, hi) ==
    LET seg == SelectSeq(SubSeq(log, lo + 1, hi - 1), LAMBDA e : e.role = "I")
    IN  [j \in 1..Len(seg) |-> seg[j].text]

\* the positions of the history at which a pair was emitted
EmitPos == {p \in 1..Len(log) : log[p].emitted}
\* the k-th of them, and 0 for k = 0
KthEmit(k) ==
    IF k = 0 THEN 0
    ELSE CHOOSE p \in EmitPos : Cardinality({q \in EmitPos : q <= p}) = k
LastEmit == KthEmit(Cardinality(EmitPos))

\* the step takes one entry of the log
TakesEntry == nread' = nread + 1

\* a text the filter of line 39 is meant to discard
Noise(t) == Len(t) < 2 \/ StartsWith(t, <<"h", "t", "t", "p">>)

\* C1: the context window never holds more than 3 elements and always holds
\* the 3 (or fewer) most recent cleaned interlocutor texts appended since the
\* last emitted pair, oldest first.
C1_WindowIsLastThree ==
    /\ Len(current_context) <= 3
    /\ current_context = LastN(ITexts(LastEmit, Len(log) + 1), 3)

\* four or more appends in a row without a pair: the oldest were evicted
C1_Witness ==
    /\ Len(ITexts(LastEmit, Len(log) + 1)) >= 4
    /\ Len(current_context) = 3
    /\ current_context[1] # current_context[3]

\* C2: a step emits a pair exactly when it takes a surviving message of the
\* owner while the window is non-empty; the pair holds the window as it was
\* and the message's cleaned text; no other step changes the list of pairs.
C2_EmitStep ==
    LET m    == msg'
        emit == /\ TakesEntry
                /\ Role(m) = "S"
                /\ current_context # <<>>
    IN  /\ emit =>
            /\ Len(conversations') = Len(conversations) + 1
            /\ SubSeq(conversations', 1, Len(conversations)) = conversations
            /\ conversations'[Len(conversations')].context = current_context
            /\ conversations'[Len(conversations')].response = clean_text(m.text)
        /\ ~emit => conversations' = conversations

C2_EmitsExactlyOnOwnerWithContext == [][C2_EmitStep]_vars

\* a pair was emitted after an owner message and a skipped entry were passed
\* over
C2_Witness ==
    /\ Len(conversations) = 1
    /\ Len(conversations[1].context) = 2
    /\ \E k \in 1..Len(log) : log[k].role = "S" /\ ~log[k].emitted
    /\ \E k \in 1..Len(log) : log[k].role = "skip"
    /\ log[Len(log)].emitted

\* C3, per step: a step that emits a pair leaves the window empty, and no
\* step changes a pair emitted before.
C3_FlushStep ==
    /\ Len(conversations') > Len(conversations) => current_context' = <<>>
    /\ Len(conversations') >= Len(conversations)
    /\ SubSeq(conversations', 1, Len(conversations)) = conversations

\* C3, per state: the k-th pair's context holds only interlocutor texts taken
\* after the (k-1)-th pair's response, and its response is the k-th emitting
\* message; the log I, I, S, I, S gives 2 pairs with context lengths 2 and 1.
C3_Pairs ==
    /\ Len(conversations) = Cardinality(EmitPos)
    /\ \A k \in 1..Len(conversations) :
        /\ conversations[k].context = LastN(ITexts(KthEmit(k - 1), KthEmit(k)), 3)
        /\ conversations[k].response = log[KthEmit(k)].text
    /\ [j \in 1..Len(log) |-> log[j].role] = <<"I", "I", "S", "I", "S">> =>
        /\ Len(conversations) = 2
        /\ Len(conversations[1].context) = 2
        /\ Len(conversations[2].context) = 1
        /\ current_context = <<>>
        /\ pc = "returned" => result = conversations

\* C3: the window is cleared entirely when a pair is emitted, emitted pairs
\* are snapshots, and each pair's context starts after the previous response.
C3_FlushClearsAndSnapshots == [][C3_FlushStep]_vars /\ []C3_Pairs

\* the log I, I, S, I, S was taken, with different texts in the two contexts
C3_Witness ==
    /\ [j \in 1..Len(log) |-> log[j].role] = <<"I", "I", "S", "I", "S">>
    /\ Len(conversations) = 2
    /\ conversations[1].context[2] # conversations[2].context[1]

\* C4: a surviving owner message taken while the window is empty emits no
\* pair and leaves the window empty and the emitted pairs as they were.
C4_Step ==
    (TakesEntry /\ Role(msg') = "S" /\ current_context = <<>>) =>
        /\ conversations' = conversations
        /\ current_context' = <<>>
        /\ pc' = "loop"

C4_OwnerOnEmptyWindowIsNoOp == [][C4_Step]_vars

\* an owner message right after a flush, and one at the start of the log
C4_Witness ==
    /\ Len(log) >= 4
    /\ log[1].role = "S" /\ ~log[1].emitted
    /\ log[3].emitted
    /\ log[4].role = "S" /\ ~log[4].emitted
    /\ current_context = <<>>
    /\ Len(conversations) = 1

\* every text held by the window or by an emitted pair
HeldTexts ==
    {current_context[j] : j \in 1..Len(current_context)}
    \cup {conversations[k].response : k \in 1..Len(conversations)}
    \cup UNION {{conversations[k].context[j] :
                    j \in 1..Len(conversations[k].context)} :
                k \in 1..Len(conversations)}

\* C5: no cleaned text shorter than 2 characters or beginning with 'http'
\* is in the window, in a pair's context or a pair's response.
C5_NoNoiseKept == \A t \in HeldTexts : ~Noise(t)

\* after a pair, a one-character text of the interlocutor was taken while
\* the window held one text
C5_Witness ==
    /\ Len(log) = 4
    /\ log[4].role = "skip"
    /\ msg.type = "message" /\ msg.has_text /\ msg.from = "Masha"
    /\ Len(clean_text(msg.text)) = 1
    /\ Len(conversations) = 1
    /\ Len(current_context) = 1


\* the three kinds of skipped entry: not a message, a message without a text
\* field, a message whose cleaned text is shorter than 2 or starts with
\* 'http'
Skipped(m) ==
    /\ m.isdict
    /\ \/ m.type # "message"
       \/ ~m.has_text
       \/ /\ ~CleanRaises(m.text)
          /\ Noise(clean_text(m.text))

C14_Step ==
    (TakesEntry /\ Skipped(msg')) =>
        /\ conversations' = conversations
        /\ current_context' = current_context
        /\ pc' = "loop"

\* C14: taking a skipped entry, whoever sent it, leaves the window and the
\* list of pairs as they were and the loop goes on.
C14_SkippedEntryChangesNothing == [][C14_Step]_vars

\* the window kept accumulating across two skipped entries, the second an
\* owner's message discarded by the filter
C14_Witness ==
    /\ Len(log) = 4
    /\ log[1].role = "I" /\ log[2].role = "skip"
    /\ log[3].role = "I" /\ log[4].role = "skip"
    /\ msg.type = "message" /\ msg.has_text /\ msg.from = "Andrey"
    /\ current_context = <<log[1].text, log[3].text>>
    /\ conversations = <<>>
    /\ pc = "loop"

---------------------------------------------------------------------------
(* create_training_dataset (SpecDataset) *)

MaxFiles == 3

CHATS == "2025_08_12"

A == your_name
M == "Masha"
PersonalDoc == Doc("dict", TRUE, "personal_chat", TRUE, "Masha", TRUE)

\* the chat exports a folder may hold: [doc, messages]
ChatContents ==
    { \* one pair
      [doc |-> PersonalDoc, messages |-> <<Entry(M, Hi), Entry(A, Ok)>>],
      \* two different pairs
      [doc |-> PersonalDoc,
       messages |-> <<Entry(M, Hi), Entry(M, Ok), Entry(A, Hi), ServiceEntry,
                      Entry(M, Ok), Entry(A, Ok)>>],
      \* a window that overflows, then two owner messages
      [doc |-> Doc("dict", TRUE, "personal_chat", FALSE, "", TRUE),
       messages |-> <<Entry(M, Hi), Entry(M, Ok), Entry(M, OkList), Entry(M, MessyHi),
                      Entry(A, MessyHi), Entry(A, Ok)>>],
      \* no pair, no failure
      [doc |-> PersonalDoc, messages |-> <<Entry(A, Ok), Entry(M, Link), Entry(M, Hi)>>],
      \* fails at an entry that is not an object, after a pair
      [doc |-> PersonalDoc,
       messages |-> <<Entry(M, Hi), Entry(A, Ok), NonDictEntry, Entry(M, Ok), Entry(A, Hi)>>],
      \* fails in clean_text, after a pair
      [doc |-> PersonalDoc,
       messages |-> <<EntryNoFrom(Hi), Entry(A, OneChar), Entry(A, OkList),
                      Entry(M, BadList)>>],
      \* cannot be opened or parsed
      [doc |-> Doc("unreadable", FALSE, "", FALSE, "", FALSE), messages |-> <<>>],
      \* 'messages' is not a list
      [doc |-> Doc("dict", TRUE, "personal_chat", TRUE, "Masha", FALSE), messages |-> <<>>],
      \* a group chat
      [doc |-> Doc("dict", TRUE, "private_group", TRUE, "Team", TRUE),
       messages |-> <<Entry(M, Hi), Entry(A, Ok), Entry(M, Ok), Entry(A, Hi)>>],
      \* no type field, and an entry that is not an object
      [doc |-> Doc("dict", FALSE, "", TRUE, "Masha", TRUE),
       messages |-> <<Entry(M, Ok), Entry(A, Hi), NonDictEntry>>] }

\* the i-th file name the glob yields
FileName(i) == <<"chat", i, ".json">>

\* a folder of n files, in the order the glob yields them
Folders(n) ==
    {[exists |-> TRUE,
      files  |-> [i \in 1..n |-> [path |-> Path(CHATS, FileName(i)),
                                  doc |-> c[i].doc, messages |-> c[i].messages]]] :
        c \in [1..n -> ChatContents]}

\* a variant of Extend that inserts the new pairs one by one at the front
\* (insert(0, c) for each c)
Extend_InsertFront(all, convs) ==
    [k \in 1..Len(convs) |-> convs[Len(convs) + 1 - k]] \o all

\* line 86: all_conversations.extend(conversations)
Extend(all, convs) == all \o convs

\* lines 104-111: the stats dict as created
InitStats(all, processed, total) ==
    [total_conversations |-> Len(all), processed_files |-> processed,
     total_files |-> total, chat_sources |-> [n \in {} |-> 0],
     context_lengths |-> <<>>, response_lengths |-> <<>>]

\* a variant of CountSource that forgets the count so far
CountSource_Overwrite(cs, source) ==
    [n \in DOMAIN cs \cup {source} |-> IF n = source THEN 1 ELSE cs[n]]

\* line 116: stats['chat_sources'][source] = stats['chat_sources'].get(source, 0) + 1
CountSource(cs, source) ==
    [n \in DOMAIN cs \cup {source} |->
        IF n = source THEN (IF source \in DOMAIN cs THEN cs[source] ELSE 0) + 1
        ELSE cs[n]]

\* lines 113-120, one iteration
StatsStep(st, conv) ==
    [st EXCEPT !.chat_sources = CountSource(st.chat_sources, conv.source_file),
               !.context_lengths = Append(st.context_lengths, Len(conv.context)),
               !.response_lengths = Append(st.response_lengths, Len(conv.response))]

DsInit ==
    /\ dpc = "start"
    /\ folder \in {NoFolder} \cup UNION {Folders(n) : n \in 0..MaxFiles}
    /\ fidx = 0 /\ file_conversations = <<>> /\ all_conversations = <<>>
    /\ total_files = 0 /\ processed_files = 0 /\ stats = NoStats /\ sidx = 0
    /\ written = {}

\* lines 69-77
Begin ==
    /\ dpc = "start"
    /\ dpc' = IF folder.exists THEN "files" ELSE "done"
    /\ all_conversations' = <<>>
    /\ total_files' = 0
    /\ processed_files' = 0
    /\ UNCHANGED <<folder, fidx, file_conversations, stats, sidx, written,
                   extVars, genVars, txtVars>>

\* lines 80-90, one iteration
VisitFile ==
    /\ dpc = "files"
    /\ fidx < Len(folder.files)
    /\ LET json_file == folder.files[fidx + 1]
           convs     == process_chat_file(json_file)
       IN  /\ fidx' = fidx + 1
           /\ total_files' = total_files + 1
           /\ file_conversations' = convs
           /\ IF convs # <<>>
              THEN /\ all_conversations' = Extend(all_conversations, convs)
                   /\ processed_files' = processed_files + 1
              ELSE UNCHANGED <<all_conversations, processed_files>>
    /\ UNCHANGED <<dpc, folder, stats, sidx, written, extVars, genVars, txtVars>>

\* lines 92-111 and 150-155: the loop is over
EndFiles ==
    /\ dpc = "files"
    /\ fidx = Len(folder.files)
    /\ IF all_conversations # <<>>
       THEN /\ written' = written \cup {"training_dataset.json"}
            /\ stats' = InitStats(all_conversations, processed_files, total_files)
            /\ dpc' = "stats"
       ELSE /\ dpc' = "done"
            /\ UNCHANGED <<written, stats>>
    /\ UNCHANGED <<folder, fidx, file_conversations, all_conversations, total_files,
                   processed_files, sidx, extVars, genVars, txtVars>>

\* lines 113-120, one iteration
FoldStats ==
    /\ dpc = "stats"
    /\ sidx < Len(all_conversations)
    /\ stats' = StatsStep(stats, all_conversations[sidx + 1])
    /\ sidx' = sidx + 1
    /\ UNCHANGED <<dpc, folder, fidx, file_conversations, all_conversations,
                   total_files, processed_files, written, extVars, genVars, txtVars>>

\* lines 122-126
WriteStats ==
    /\ dpc = "stats"
    /\ sidx = Len(all_conversations)
    /\ written' = written \cup {"dataset_statistics.json"}
    /\ dpc' = "done"
    /\ UNCHANGED <<folder, fidx, file_conversations, all_conversations, total_files,
                   processed_files, stats, sidx, extVars, genVars, txtVars>>

InitDataset == ExtIdle /\ DsInit /\ GenIdle /\ TxtIdle

NextDataset == Begin \/ VisitFile \/ EndFiles \/ FoldStats \/ WriteStats

SpecDataset == InitDataset /\ [][NextDataset]_vars

---------------------------------------------------------------------------
(* Properties of create_training_dataset (SpecDataset) *)

\* the files visited so far
Visited == 1..fidx

\* the file the last iteration visited
LastFile == folder.files[fidx]

\* the corpus records that name file i as their source
RecordsOf(i) ==
    {k \in 1..Len(all_conversations) :
        all_conversations[k].source_file = folder.files[i].path.name}

\* a message that would give a pair in a personal chat: an interlocutor text
\* directly followed by an owner text
HasExchange(msgs) ==
    \E k \in 1..(Len(msgs) - 1) : Role(msgs[k]) = "I" /\ Role(msgs[k + 1]) = "S"

\* the chat's type is anything but 'personal_chat', or it has none
NotPersonal(f) ==
    f.doc.kind = "dict" /\ (~f.doc.has_type \/ f.doc.type # "personal_chat")

\* C6: a chat log whose type is not 'personal_chat' (or that has no type)
\* yields no pair, whatever its messages are.
C6_NonPersonalYieldsNothing ==
    /\ fidx >= 1 /\ NotPersonal(LastFile) => file_conversations = <<>>
    /\ \A i \in Visited : NotPersonal(folder.files[i]) => RecordsOf(i) = {}

\* a group chat holding an exchange was visited after a file that gave pairs
C6_Witness ==
    /\ fidx >= 2
    /\ NotPersonal(LastFile)
    /\ LastFile.doc.has_type
    /\ HasExchange(LastFile.messages)
    /\ all_conversations # <<>>

\* reading or parsing the file fails: the file cannot be opened or parsed, is
\* not an object, or is a personal chat whose messages cannot be walked to
\* the end
FileFails(f) ==
    \/ f.doc.kind # "dict"
    \/ /\ f.doc.has_type /\ f.doc.type = "personal_chat"
       /\ \/ ~f.doc.iterable
          \/ \E k \in 1..Len(f.messages) : Role(f.messages[k]) = "bad"

\* the number of failing files among the visited ones
FailedCount == Cardinality({i \in Visited : FileFails(folder.files[i])})

\* C7, per step: visiting a failing file adds nothing to the corpus, counts
\* the file in total_files but not in processed_files, and the loop goes on.
C7_FailStep ==
    (fidx' = fidx + 1 /\ FileFails(folder.files[fidx'])) =>
        /\ file_conversations' = <<>>
        /\ all_conversations' = all_conversations
        /\ total_files' = total_files + 1
        /\ processed_files' = processed_files
        /\ dpc' = "files"

\* C7, per state: no record of the corpus comes from a failing file, the
\* failing files are among those counted as not processed, and once the loop
\* is over every file of the folder was visited.
C7_FailState ==
    /\ \A i \in Visited : FileFails(folder.files[i]) => RecordsOf(i) = {}
    /\ total_files = fidx
    /\ total_files - processed_files >= FailedCount
    /\ (folder.exists /\ dpc \in {"stats", "done"}) =>
            total_files = Len(folder.files)

\* C7: a failing file is counted, contributes no pair, and the run goes on
\* with the remaining files.
C7_FailedFileIsSkipped == [][C7_FailStep]_vars /\ []C7_FailState

\* the run is over; the first file failed after a pair was collected, and a
\* later file gave pairs
C7_Witness ==
    /\ dpc = "done"
    /\ Len(folder.files) >= 2
    /\ FileFails(folder.files[1])
    /\ HasExchange(folder.files[1].messages)
    /\ Role(folder.files[1].messages[1]) = "I"
    /\ processed_files >= 1
    /\ all_conversations # <<>>

\* s is t with some elements left out
RECURSIVE IsSubseq(_, _)
IsSubseq(s, t) ==
    IF s = <<>> THEN TRUE
    ELSE IF t = <<>> THEN FALSE
    ELSE IF Head(s) = Head(t) THEN IsSubseq(Tail(s), Tail(t))
    ELSE IsSubseq(s, Tail(t))

\* the cleaned texts of the owner's surviving messages, in the log's order
OwnerTexts(msgs) ==
    LET own == SelectSeq(msgs, LAMBDA m : Role(m) = "S")
    IN  [j \in 1..Len(own) |-> clean_text(own[j].text)]

\* the corpus records file i gave, as a sequence in the corpus's order;
\* the records of one file are those that carry its name
Block(i) ==
    SelectSeq(all_conversations,
              LAMBDA c : c.source_file = folder.files[i].path.name)

\* C9: the corpus holds each visited file's pairs as one contiguous block, in
\* the order process_chat_file emitted them, which is the order of their
\* response messages in the log; every record comes from a visited file.
C9_CorpusKeepsFileOrder ==
    /\ \A i \in Visited :
        LET r   == process_chat_file(folder.files[i])
            pos == RecordsOf(i)
        IN  /\ Cardinality(pos) = Len(r)
            /\ \A a, b \in pos : a..b \subseteq pos
            /\ Block(i) = r
            /\ IsSubseq([k \in 1..Len(r) |-> r[k].response],
                        OwnerTexts(folder.files[i].messages))
    /\ \A k \in 1..Len(all_conversations) : \E i \in Visited : k \in RecordsOf(i)

\* three files visited; the first and the last gave two different pairs each
C9_Witness ==
    /\ fidx = 3
    /\ Len(Block(1)) = 2 /\ Block(1)[1] # Block(1)[2]
    /\ Len(Block(2)) = 1
    /\ Len(Block(3)) = 2 /\ Block(3)[1].response # Block(3)[2].response
    /\ RecordsOf(3) = {4, 5}

\* the sum of the values of the function cs
RECURSIVE SumOf(_)
SumOf(cs) ==
    IF DOMAIN cs = {} THEN 0
    ELSE LET n == CHOOSE x \in DOMAIN cs : TRUE
         IN  cs[n] + SumOf([x \in DOMAIN cs \ {n} |-> cs[x]])

\* the statistics were written
StatsDone == "dataset_statistics.json" \in written

\* C10: the written statistics are a fold over the final corpus.
C10_StatsAreFoldOfCorpus ==
    StatsDone =>
        /\ DOMAIN stats.chat_sources =
               {all_conversations[k].source_file : k \in 1..Len(all_conversations)}
        /\ \A f \in DOMAIN stats.chat_sources :
               stats.chat_sources[f] =
                   Cardinality({k \in 1..Len(all_conversations) :
                                   all_conversations[k].source_file = f})
        /\ Len(stats.context_lengths) = Len(all_conversations)
        /\ Len(stats.response_lengths) = Len(all_conversations)
        /\ \A k \in 1..Len(all_conversations) :
               /\ stats.context_lengths[k] = Len(all_conversations[k].context)
               /\ stats.response_lengths[k] = Len(all_conversations[k].response)
        /\ stats.total_conversations = Len(all_conversations)
        /\ stats.total_conversations = SumOf(stats.chat_sources)

\* statistics over two sources with different counts, and a pair whose
\* context and response lengths differ
C10_Witness ==
    /\ StatsDone
    /\ \E f, g \in DOMAIN stats.chat_sources :
           stats.chat_sources[f] = 2 /\ stats.chat_sources[g] = 1
    /\ \E k \in 1..Len(all_conversations) :
           stats.context_lengths[k] # stats.response_lengths[k]


\* a cleaned text of at least 2 characters
CleanedText(t) == Len(t) >= 2 /\ clean_text(Str(t)) = t

\* a pair with 1 to 3 context elements, all of them and the response cleaned
\* texts of at least 2 characters
SoundPair(c) ==
    /\ Len(c.context) \in 1..3
    /\ \A j \in 1..Len(c.context) : CleanedText(c.context[j])
    /\ CleanedText(c.response)

\* C16: every pair process_chat_file holds or returns, every record of the
\* merged corpus and every entry of context_lengths has a context of 1 to 3
\* elements, and every context element and response is a cleaned text of at
\* least 2 characters.
C16_PairsAreSound ==
    /\ \A k \in 1..Len(conversations) : SoundPair(conversations[k])
    /\ \A k \in 1..Len(result) : SoundPair(result[k])
    /\ \A k \in 1..Len(file_conversations) : SoundPair(file_conversations[k])
    /\ \A k \in 1..Len(all_conversations) : SoundPair(all_conversations[k])
    /\ \A k \in 1..Len(stats.context_lengths) : stats.context_lengths[k] \in 1..3

\* the statistics of a corpus with contexts of 1 and of 3 elements, made from
\* a folder where an owner message met an empty window and gave nothing
C16_Witness ==
    /\ StatsDone
    /\ \E i, k \in 1..Len(stats.context_lengths) :
          stats.context_lengths[i] = 1 /\ stats.context_lengths[k] = 3
    /\ \E i \in 1..Len(folder.files) :
          /\ folder.files[i].doc = PersonalDoc
          /\ Role(folder.files[i].messages[1]) = "S"
          /\ RecordsOf(i) = {}

---------------------------------------------------------------------------
(* MessageGenerator (SpecGen).  Cyrillic letters are written in Latin        *)
(* transliteration, one character of the model for one of the source.      *)

\* "Собеседник: ", the prefix of a context line
InterlocutorMarker ==
    <<"S", "o", "b", "e", "s", "e", "d", "n", "i", "k", ":", " ">>

\* "Вы: ", the prefix of the reply line
SelfMarker == <<"V", "y", ":", " ">>

\* line 108: "Извините, не удалось сгенерировать ответ."
Fallback ==
    <<"I", "z", "v", "i", "n", "i", "t", "e", ",", " ", "n", "e", " ", "u",
      "d", "a", "l", "o", "s", "'", " ", "s", "g", "e", "n", "e", "r", "i",
      "r", "o", "v", "a", "t", "'", " ", "o", "t", "v", "e", "t", ".">>

\* lines 65-68: the prompt for a list of context messages
RECURSIVE ContextLines(_)
ContextLines(msgs) ==
    IF msgs = <<>> THEN <<>>
    ELSE InterlocutorMarker \o Head(msgs) \o <<"\n">> \o ContextLines(Tail(msgs))

FormatPrompt(msgs) == ContextLines(msgs) \o SelfMarker

\* the least index at which p occurs in s, 0 if it does not
Find(s, p) ==
    LET hits == {k \in 1..(Len(s) - Len(p) + 1) : SubSeq(s, k, k + Len(p) - 1) = p}
    IN  IF hits = {} THEN 0 ELSE CHOOSE k \in hits : \A j \in hits : k <= j

\* p in s
Contains(s, p) == Find(s, p) # 0

\* a variant of SplitLast that keeps what follows the first occurrence
\* (split(p, 1)[-1])
SplitLast_AfterFirst(s, p) ==
    IF Find(s, p) = 0 THEN s ELSE SubSeq(s, Find(s, p) + Len(p), Len(s))

\* s.split(p)[-1]: what follows the last of the occurrences of p that split
\* finds scanning from the left
RECURSIVE SplitLast(_, _)
SplitLast(s, p) ==
    IF Find(s, p) = 0 THEN s
    ELSE SplitLast(SubSeq(s, Find(s, p) + Len(p), Len(s)), p)

\* a variant of ExtractReply that never splits on the marker
ExtractReply_WholeText(full_response) == Strip(full_response)

\* lines 98-101: the reply in the decoded text
ExtractReply(full_response) ==
    IF Contains(full_response, SelfMarker)
    THEN Strip(SplitLast(full_response, SelfMarker))
    ELSE Strip(full_response)

\* what the calls of lines 73-95 (tokenizer, model.generate, decode) do:
\* one of them raises, or decode gives a text
Raised(where) == [raises |-> TRUE, where |-> where, decoded |-> <<>>]
Decoded(text) == [raises |-> FALSE, where |-> "", decoded |-> text]

\* a variant of ExceptResponse that lets the exception go up
ExceptResponse_Reraise == [propagates |-> TRUE, value |-> <<>>]

\* lines 106-108: the except branch returns the fallback string
ExceptResponse == [propagates |-> FALSE, value |-> Fallback]

\* lines 60-108.  mdl: self.model/self.tokenizer; o: what the library does
generate_response(mdl, o) ==
    IF mdl # "loaded" THEN [propagates |-> TRUE, value |-> <<>>]
    ELSE IF o.raises THEN ExceptResponse
    ELSE [propagates |-> FALSE, value |-> ExtractReply(o.decoded)]

\* line 116: temp = temperature + (i * 0.1), in tenths
Temp(t, i) == t + i

MaxResponses == 3

\* the default of the parameter temperature (0.7), in tenths
DefaultTemperature == 7

Contexts == {<<>>, <<<<"h", "i">>>>, <<<<"h", "i">>, <<"o", "k", "?">>>>}

\* texts the model may append to the prompt
Continuations ==
    {<<>>,
     <<"o", "k">>,
     <<" ", "o", "k", "!", "\n">>,
     <<"o", "k", "\n">> \o InterlocutorMarker \o <<"h", "i", "\n">> \o SelfMarker
        \o <<"h", "i", " ">>}

\* what one inference may do for a prompt
Outcomes(msgs) ==
    {Raised(w) : w \in {"tokenizer", "generate", "decode"}}
    \cup {Decoded(FormatPrompt(msgs) \o c) : c \in Continuations}
    \cup {Decoded(<<"o", "k", ":", " ", "h", "i", " ">>)}

GenInit ==
    /\ gpc = "new" /\ model = "None" /\ context_messages = <<>> /\ num_responses = 0
    /\ temperature = 0 /\ gi = 0 /\ temps = <<>> /\ outcomes = <<>>
    /\ responses = <<>>

\* lines 13-46: the constructor; load_model raises or loads the model
Construct ==
    /\ gpc = "new"
    /\ \E ok \in BOOLEAN :
        IF ok THEN gpc' = "ready" /\ model' = "loaded"
        ELSE gpc' = "ctor_raised" /\ model' = "None"
    /\ UNCHANGED <<context_messages, num_responses, temperature, gi, temps,
                   outcomes, responses, extVars, dsVars, txtVars>>

\* lines 110-113: generate_multiple_responses is called
Call ==
    /\ gpc = "ready"
    /\ \E msgs \in Contexts, n \in 0..MaxResponses :
        /\ context_messages' = msgs
        /\ num_responses' = n
    /\ temperature' = DefaultTemperature
    /\ responses' = <<>>
    /\ gi' = 0
    /\ gpc' = "loop"
    /\ UNCHANGED <<model, temps, outcomes, extVars, dsVars, txtVars>>

\* lines 114-118, one iteration
GenerateOne ==
    /\ gpc = "loop"
    /\ gi < num_responses
    /\ \E o \in Outcomes(context_messages) :
        LET temp     == Temp(temperature, gi)
            response == generate_response(model, o)
        IN  /\ outcomes' = Append(outcomes, o)
            /\ temps' = Append(temps, temp)
            /\ IF response.propagates
               THEN gpc' = "raised" /\ UNCHANGED <<responses, gi>>
               ELSE /\ responses' = Append(responses, response.value)
                    /\ gi' = gi + 1
                    /\ gpc' = gpc
    /\ UNCHANGED <<model, context_messages, num_responses, temperature,
                   extVars, dsVars, txtVars>>

\* line 120
ReturnResponses ==
    /\ gpc = "loop"
    /\ gi = num_responses
    /\ gpc' = "returned"
    /\ UNCHANGED <<model, context_messages, num_responses, temperature, gi, temps,
                   outcomes, responses, extVars, dsVars, txtVars>>

InitGen == ExtIdle /\ DsIdle /\ GenInit /\ TxtIdle

NextGen == Construct \/ Call \/ GenerateOne \/ ReturnResponses

SpecGen == InitGen /\ [][NextGen]_vars

---------------------------------------------------------------------------
(* Properties of generate_multiple_responses (SpecGen) *)

\* C8: a failing inference never fails the whole request: the call returns
\* exactly num_responses strings in request order, the fallback string at
\* each position whose inference raised, the extracted reply at the others.
C8_OneBadSampleNeverFailsAll ==
    /\ gpc # "raised"
    /\ gpc \in {"loop", "returned"} =>
        /\ Len(responses) = gi
        /\ Len(outcomes) = gi
        /\ gi <= num_responses
        /\ \A k \in 1..gi :
            /\ outcomes[k].raises => responses[k] = Fallback
            /\ ~outcomes[k].raises =>
                   responses[k] = ExtractReply(outcomes[k].decoded)
    /\ gpc = "returned" => Len(responses) = num_responses

\* three candidates were asked for; the second inference raised, the others
\* gave different replies
C8_Witness ==
    /\ gpc = "returned"
    /\ num_responses = 3
    /\ ~outcomes[1].raises /\ outcomes[2].raises /\ ~outcomes[3].raises
    /\ responses[1] # responses[3]
    /\ responses[1] # <<>>

---------------------------------------------------------------------------
(* SpecExtract: the reply extraction of generate_response, lines 97-101 *)

MaxPieces == 4

\* what a decoded text is made of: the marker whole, and its characters
Pieces == {SelfMarker, <<"V">>, <<"y">>, <<":">>, <<" ">>, <<"a">>, <<"\n">>}

\* the texts made of at most n pieces
RECURSIVE TextsOf(_)
TextsOf(n) ==
    IF n = 0 THEN {<<>>}
    ELSE TextsOf(n - 1) \cup {t \o q : t \in TextsOf(n - 1), q \in Pieces}

ExtractInit ==
    /\ tpc = "input" /\ raw = Str(<<>>) /\ cleaned = <<>> /\ recleaned = <<>>
    /\ x_full_response \in TextsOf(MaxPieces)
    /\ x_your_response = <<>> /\ ex_context = <<>> /\ ex_response = <<>>
    /\ training_text = <<>> /\ dialog_text = <<>> /\ recovered = <<>>

\* lines 97-104
Extract ==
    /\ tpc = "input"
    /\ x_your_response' = ExtractReply(x_full_response)
    /\ tpc' = "extracted"
    /\ UNCHANGED <<raw, cleaned, recleaned, x_full_response, ex_context, ex_response,
                   training_text, dialog_text, recovered, extVars, dsVars, genVars>>

InitExtract == ExtIdle /\ DsIdle /\ GenIdle /\ ExtractInit

NextExtract == Extract

SpecExtract == InitExtract /\ [][NextExtract]_vars

\* the places of s at which 'Вы: ' occurs
MarkerAt(s) ==
    {k \in 1..(Len(s) - 3) : SubSeq(s, k, k + 3) = <<"V", "y", ":", " ">>}

\* s neither begins nor ends with whitespace
Trimmed(s) ==
    s = <<>> \/ (s[1] \notin {" ", "\n", "\t"} /\ s[Len(s)] \notin {" ", "\n", "\t"})

\* s without its leading and trailing whitespace: the longest trimmed stretch
\* of s that has only whitespace before and after it
TrimOf(s) ==
    LET inner == {k \in 1..Len(s) : s[k] \notin {" ", "\n", "\t"}}
    IN  IF inner = {} THEN <<>>
        ELSE SubSeq(s, CHOOSE a \in inner : \A b \in inner : a <= b,
                       CHOOSE a \in inner : \A b \in inner : a >= b)

\* C11: if the marker 'Вы: ' occurs in the decoded text, the reply is the
\* trimmed text after its last occurrence and does not contain the marker;
\* otherwise the reply is the trimmed decoded text.
C11_ReplyFollowsLastMarker ==
    tpc = "extracted" =>
        LET s    == x_full_response
            occ  == MarkerAt(s)
            last == CHOOSE k \in occ : \A j \in occ : j <= k
        IN  /\ Trimmed(x_your_response)
            /\ IF occ # {}
               THEN /\ x_your_response = TrimOf(SubSeq(s, last + 4, Len(s)))
                    /\ MarkerAt(x_your_response) = {}
               ELSE x_your_response = TrimOf(s)

\* the marker occurs twice, and the text after the second one is trimmed to
\* a non-empty reply
C11_Witness ==
    /\ tpc = "extracted"
    /\ Cardinality(MarkerAt(x_full_response)) = 2
    /\ x_your_response # <<>>
    /\ Len(x_your_response) + 8 < Len(x_full_response)

---------------------------------------------------------------------------
(* SpecFormat: format_dataset of train_model_locally.py against the prompt *)
(* of generate_response                                                    *)

\* train_model_locally.py line 56: "Собеседник: "
TrainInterlocutorMarker ==
    <<"S", "o", "b", "e", "s", "e", "d", "n", "i", "k", ":", " ">>

\* a variant of TrainSelfMarker without the space after the colon
TrainSelfMarker_NoSpace == <<"V", "y", ":">>

\* train_model_locally.py line 57: "Вы: "
TrainSelfMarker == <<"V", "y", ":", " ">>

\* tokenizer.eos_token of the DialoGPT tokenizer: "<|endoftext|>"
EosToken ==
    <<"<", "|", "e", "n", "d", "o", "f", "t", "e", "x", "t", "|", ">">>

\* lines 54-57 of format_dataset: dialog_text for one example, the loop over
\* context taken from message k on
RECURSIVE TrainDialog(_, _, _)
TrainDialog(ctx, k, resp) ==
    IF k > Len(ctx) THEN TrainSelfMarker \o resp \o EosToken
    ELSE TrainInterlocutorMarker \o ctx[k] \o <<"\n">> \o TrainDialog(ctx, k + 1, resp)

\* lines 49-59 of format_dataset, for one example
format_dataset(ctx, resp) == TrainDialog(ctx, 1, resp)

\* tokenizer.decode(..., skip_special_tokens=True) of a text that ends with
\* the eos token: the text without it
SkipSpecialTokens(text) ==
    IF Len(text) >= Len(EosToken)
       /\ SubSeq(text, Len(text) - Len(EosToken) + 1, Len(text)) = EosToken
    THEN SubSeq(text, 1, Len(text) - Len(EosToken))
    ELSE text

MaxContext == 2

\* cleaned texts: messages as process_chat_file keeps them
CleanedTexts ==
    {<<"H", "i">>,
     <<"H", "o", "w", " ", "a", "r", "e", " ", "y", "o", "u">>,
     <<"G", "o", "o", "d", ",", " ", "t", "h", "a", "n", "k", "s">>,
     <<"o", "k">>,
     <<"V", "y", ":">>,
     <<"V", "y", ":", " ", "o", "k">>,
     <<"a", " ", "V", "y", ":", " ", "H", "i">>}

\* the contexts of at most n messages
RECURSIVE ContextsOf(_)
ContextsOf(n) ==
    IF n = 0 THEN {<<>>}
    ELSE ContextsOf(n - 1)
         \cup {Append(c, t) : c \in ContextsOf(n - 1), t \in CleanedTexts}

FormatInit ==
    /\ tpc = "input" /\ raw = Str(<<>>) /\ cleaned = <<>> /\ recleaned = <<>>
    /\ x_full_response = <<>> /\ x_your_response = <<>>
    /\ ex_context \in ContextsOf(MaxContext)
    /\ ex_response \in CleanedTexts
    /\ training_text = <<>> /\ dialog_text = <<>> /\ recovered = <<>>

\* format_dataset on the example
FormatTraining ==
    /\ tpc = "input"
    /\ training_text' = format_dataset(ex_context, ex_response)
    /\ tpc' = "trained"
    /\ UNCHANGED <<raw, cleaned, recleaned, x_full_response, x_your_response,
                   ex_context, ex_response, dialog_text, recovered,
                   extVars, dsVars, genVars>>

\* generate_response lines 64-68 on the example's context
FormatInference ==
    /\ tpc = "trained"
    /\ dialog_text' = FormatPrompt(ex_context)
    /\ tpc' = "prompted"
    /\ UNCHANGED <<raw, cleaned, recleaned, x_full_response, x_your_response,
                   ex_context, ex_response, training_text, recovered,
                   extVars, dsVars, genVars>>

\* generate_response lines 95-104 on the decoded training text: the prompt
\* followed by the response
RecoverReply ==
    /\ tpc = "prompted"
    /\ x_full_response' = SkipSpecialTokens(training_text)
    /\ recovered' = ExtractReply(SkipSpecialTokens(training_text))
    /\ tpc' = "recovered"
    /\ UNCHANGED <<raw, cleaned, recleaned, x_your_response, ex_context, ex_response,
                   training_text, dialog_text, extVars, dsVars, genVars>>

InitFormat == ExtIdle /\ DsIdle /\ GenIdle /\ FormatInit

NextFormat == FormatTraining \/ FormatInference \/ RecoverReply

SpecFormat == InitFormat /\ [][NextFormat]_vars

\* one line per context message, oldest first: 'Собеседник: ', the message,
\* a line feed
RECURSIVE ExpectedLines(_)
ExpectedLines(ctx) ==
    IF ctx = <<>> THEN <<>>
    ELSE ExpectedLines(SubSeq(ctx, 1, Len(ctx) - 1))
         \o <<"S", "o", "b", "e", "s", "e", "d", "n", "i", "k", ":", " ">> \o ctx[Len(ctx)] \o <<"\n">>

\* C12: the prompt is one marked line per context message, oldest first,
\* then the open reply line; the training text of (context, response) is the
\* prompt of the same context followed by the response and the eos token.
C12_FormattersAgree ==
    tpc \in {"prompted", "recovered"} =>
        /\ dialog_text = ExpectedLines(ex_context) \o <<"V", "y", ":", " ">>
        /\ training_text = dialog_text \o ex_response \o EosToken

\* both texts were made for a context of two different messages
C12_Witness ==
    /\ tpc = "prompted"
    /\ Len(ex_context) = 2
    /\ ex_context[1] # ex_context[2]
    /\ Len(training_text) > Len(dialog_text) + Len(ex_response)

\* C15 as claimed: for every context and every cleaned response, extracting
\* the reply from the prompt followed by the response gives the response.
C15_RoundTripAlways ==
    tpc = "recovered" =>
        /\ x_full_response = dialog_text \o ex_response
        /\ recovered = ex_response

\* C15: for every context and every cleaned response that does not contain
\* the marker 'Вы: ', extracting the reply from the prompt followed by the
\* response gives the response; so it does for the context 'Hi', 'How are
\* you' and the response 'Good, thanks'.
C15_RoundTripWithoutMarker ==
    tpc = "recovered" =>
        /\ x_full_response = dialog_text \o ex_response
        /\ clean_text(Str(ex_response)) = ex_response
        /\ MarkerAt(ex_response) = {} => recovered = ex_response

\* the scenario: context 'Hi', 'How are you', response 'Good, thanks'
C15_Witness ==
    /\ tpc = "recovered"
    /\ ex_context = << <<"H", "i">>,
                    <<"H", "o", "w", " ", "a", "r", "e", " ", "y", "o",
                      "u">> >>
    /\ ex_response =
           <<"G", "o", "o", "d", ",", " ", "t", "h", "a", "n", "k", "s">>
    /\ recovered = ex_response

---------------------------------------------------------------------------
(* SpecClean: clean_text applied once and then to its own output *)

MaxTextLen == 4

\* a word character, a punctuation mark, three kinds of whitespace and a
\* character outside the whitelist
RawChars == {"a", ".", " ", "\n", "\t", "#"}

\* the strings of at most n characters
RECURSIVE StringsOf(_)
StringsOf(n) ==
    IF n = 0 THEN {<<>>}
    ELSE StringsOf(n - 1) \cup {Append(t, c) : t \in StringsOf(n - 1), c \in RawChars}

FragTexts == {<<"a">>, <<" ">>, <<"#">>, <<" ", "a">>, <<>>}

Frags == {FragStr(t) : t \in FragTexts} \cup {FragDict(t) : t \in FragTexts}
         \cup {FragNoText}

\* the values clean_text is called with: a string, or a list of one or two
\* fragments
RawTexts ==
    {Str(t) : t \in StringsOf(MaxTextLen)}
    \cup {List(<<f>>) : f \in Frags}
    \cup {List(<<f, g>>) : f \in Frags, g \in Frags}

CleanInit ==
    /\ tpc = "input" /\ raw \in RawTexts /\ cleaned = <<>> /\ recleaned = <<>>
    /\ x_full_response = <<>> /\ x_your_response = <<>>
    /\ ex_context = <<>> /\ ex_response = <<>>
    /\ training_text = <<>> /\ dialog_text = <<>> /\ recovered = <<>>

\* clean_text(raw) returns
CleanOnce ==
    /\ tpc = "input" /\ ~CleanRaises(raw)
    /\ cleaned' = clean_text(raw)
    /\ tpc' = "cleaned"
    /\ UNCHANGED <<raw, recleaned, x_full_response, x_your_response, ex_context,
                   ex_response, training_text, dialog_text, recovered,
                   extVars, dsVars, genVars>>

\* clean_text(raw) raises KeyError at line 10
CleanFails ==
    /\ tpc = "input" /\ CleanRaises(raw)
    /\ tpc' = "raised"
    /\ UNCHANGED <<raw, cleaned, recleaned, x_full_response, x_your_response,
                   ex_context, ex_response, training_text, dialog_text, recovered,
                   extVars, dsVars, genVars>>

\* clean_text of the string the first call returned
CleanAgain ==
    /\ tpc = "cleaned"
    /\ recleaned' = clean_text(Str(cleaned))
    /\ tpc' = "recleaned"
    /\ UNCHANGED <<raw, cleaned, x_full_response, x_your_response, ex_context,
                   ex_response, training_text, dialog_text, recovered,
                   extVars, dsVars, genVars>>

InitClean == ExtIdle /\ DsIdle /\ GenIdle /\ CleanInit

NextClean == CleanOnce \/ CleanFails \/ CleanAgain

SpecClean == InitClean /\ [][NextClean]_vars


Whitespace == {" ", "\n", "\t"}

\* only whitelisted characters, no two whitespace characters in a row, none
\* at either end; and the only whitespace left is the single space
Clean(s) ==
    /\ \A k \in 1..Len(s) : s[k] # "#"
    /\ \A k \in 1..(Len(s) - 1) : ~(s[k] \in Whitespace /\ s[k + 1] \in Whitespace)
    /\ s # <<>> => s[1] \notin Whitespace /\ s[Len(s)] \notin Whitespace
    /\ \A k \in 1..Len(s) : s[k] \notin {"\n", "\t"}

\* C13: whenever clean_text returns, for a string or a fragment list, its
\* output has only whitelisted characters, no run of two or more whitespace
\* characters and no leading or trailing whitespace, and clean_text of that
\* output is the output itself.
C13_CleanIsIdempotent ==
    /\ tpc \in {"cleaned", "recleaned"} => Clean(cleaned)
    /\ tpc = "recleaned" => recleaned = cleaned

\* a string with a disallowed character, a run of whitespace and leading
\* whitespace was cleaned twice, and something is left of it
C13_Witness ==
    /\ tpc = "recleaned"
    /\ raw.tag = "str"
    /\ \E i \in 1..Len(raw.chars) : raw.chars[i] = "#"
    /\ raw.chars[1] = "\t" /\ raw.chars[2] \in Whitespace
    /\ cleaned # <<>>

===========================================================================
